---- MODULE Spec2Model ----
(***************************************************************************)
(* Model of autofill.js: the listener bound to the window 'message' event  *)
(* that fills input[name="image_id_selected"] and                          *)
(* input[name="image_url_selected"] from an 'image_selected' message.      *)
(*                                                                         *)
(* The listener runs to completion for each message, except that alert()   *)
(* (line 27) is modal: the listener is suspended inside it until the user  *)
(* dismisses the dialog.  The position of the listener is pc:              *)
(*   "idle"      not running; other scripts may change the DOM             *)
(*   "alert"     suspended inside alert() on line 27                       *)
(*   "returned"  the listener has returned; the event loop has not yet     *)
(*               taken its next task                                       *)
(* The inputs are taken to be of a type whose value setter stores the      *)
(* assigned DOM string as it is (hidden, or text without line breaks).     *)
(***************************************************************************)
EXTENDS Naturals, Sequences, FiniteSets, TLC

VARIABLES
    pc,        \* position of the listener
    event,     \* the MessageEvent of the current call, NoEvent when idle
    document,  \* the two inputs the selectors of lines 9-10 look for
    pre,       \* the document as it was when the current call was entered
    trace,     \* the effects of the current call, in the order they happened
    threw,     \* TRUE when the current call ended by an exception
    lastSelected, \* history: data of the latest 'image_selected' message
    stable     \* history: both inputs have existed without interruption

vars == <<pc, event, document, pre, trace, threw, lastSelected, stable>>

----------------------------------------------------------------------------
(* JavaScript values carried by a message.                                 *)

\* Number of distinct image strings a sender may put in a message.
MaxImage == 2

Str(s) == [kind |-> "string", val |-> s]
Num(s) == [kind |-> "number", val |-> s]   \* val: the number's decimal numeral
Undefined == [kind |-> "undefined", val |-> ""]
Null == [kind |-> "null", val |-> ""]
Throw == [kind |-> "throw", val |-> ""]    \* a TypeError instead of a value

ImageStrings == {Str(ToString(i)) : i \in 1..MaxImage}

\* What a sender may put in image_id / image_url; Undefined is an absent field.
FieldValues == ImageStrings \cup {Num("1"), Undefined, Null}

\* What a sender may put in type; Undefined is an absent field.
TypeValues == {Str("image_selected"), Str("other"), Undefined}

Primitive(k) == [kind |-> k, type |-> Undefined, image_id |-> Undefined, image_url |-> Undefined]

\* event.data: null, undefined, a falsy primitive (0, "", false), a truthy
\* primitive (a non-empty string, a non-zero number), or an object.
DataValues ==
    {Primitive(k) : k \in {"null", "undefined", "falsy", "truthy"}}
    \cup [kind : {"object"}, type : TypeValues, image_id : FieldValues, image_url : FieldValues]

Origins == {"streamlit", "elsewhere"}

Events == [data : DataValues, origin : Origins]

NoEvent == [data |-> Primitive("none"), origin |-> "none"]

\* JavaScript ToBoolean of event.data, the left operand of && on line 5.
ToBoolean(data) == data.kind \notin {"null", "undefined", "falsy"}

\* The property read data[name]: a TypeError on null and undefined, undefined
\* on a primitive and on an object without the property.
GetProp(data, name) ==
    IF data.kind \in {"null", "undefined"} THEN Throw
    ELSE IF data.kind = "object" THEN data[name]
    ELSE Undefined

\* The conversion of the value setter of an input (DOMString with
\* LegacyNullToEmptyString): a string is kept, a number becomes its
\* numeral, undefined becomes "undefined" and null the empty string.
ToDOMString(v) ==
    CASE v.kind = "string" -> v
      [] v.kind = "number" -> Str(v.val)
      [] v.kind = "undefined" -> Str("undefined")
      [] v.kind = "null" -> Str("")

----------------------------------------------------------------------------
(* The document.                                                           *)

\* The value an input has before any message fills it.
InitialValue == Str("old")

Element(p) == [present |-> p, value |-> InitialValue]

Fields == {"imageIdField", "imageUrlField"}

\* What a reader of both values sees.
Seen(doc) == <<doc.imageIdField.value, doc.imageUrlField.value>>

----------------------------------------------------------------------------
(* The listener, lines 2-32, as the list of statements it executes.        *)

Stmt(o, t, a) == [op |-> o, target |-> t, arg |-> a, bubbles |-> FALSE]

Log(a) == Stmt("log", "console", a)

Dispatch(t, a) == [op |-> "dispatch", target |-> t, arg |-> a, bubbles |-> TRUE]

\* Variant of line 5 that only tests that a type is present:
\* event.data && event.data.type.
TypeGuardAnyType(ev) ==
    IF ~ToBoolean(ev.data) THEN "skip"
    ELSE IF GetProp(ev.data, "type") # Undefined THEN "enter" ELSE "skip"

\* Variant of line 5 without the left operand:
\* event.data.type === 'image_selected'.
TypeGuardNoNullCheck(ev) ==
    LET t == GetProp(ev.data, "type")
    IN  IF t = Throw THEN "throw"
        ELSE IF t = Str("image_selected") THEN "enter"
        ELSE "skip"

\* Variant of line 5 that also requires the sender's origin:
\* event.origin === STREAMLIT && event.data && ...
TypeGuardOrigin(ev) ==
    IF ev.origin # "streamlit" \/ ~ToBoolean(ev.data) THEN "skip"
    ELSE IF GetProp(ev.data, "type") = Str("image_selected") THEN "enter"
    ELSE "skip"

\* Line 5: event.data && event.data.type === 'image_selected'.
TypeGuard(ev) ==
    IF ~ToBoolean(ev.data) THEN "skip"
    ELSE LET t == GetProp(ev.data, "type")
         IN  IF t = Throw THEN "throw"
             ELSE IF t = Str("image_selected") THEN "enter"
             ELSE "skip"

\* Lines 6-13.
FindFields ==
    << Log("Processing image selection..."),
       Stmt("query", "imageIdField", "input[name=image_id_selected]"),
       Stmt("query", "imageUrlField", "input[name=image_url_selected]"),
       Log("Image ID field:"),
       Log("Image URL field:") >>

\* Variant of line 15 with || for &&.
FieldsFoundEither(doc) == doc.imageIdField.present \/ doc.imageUrlField.present

\* Line 15: imageIdField && imageUrlField.
FieldsFound(doc) == doc.imageIdField.present /\ doc.imageUrlField.present

\* Variant of lines 16-27 without line 24.
ThenBranchNoChange ==
    << Stmt("assign", "imageIdField", "image_id"),
       Stmt("assign", "imageUrlField", "image_url"),
       Dispatch("imageIdField", "input"),
       Dispatch("imageIdField", "change"),
       Dispatch("imageUrlField", "input"),
       Log("Fields updated successfully"),
       Stmt("alert", "window", "Image selected! Fields have been filled.") >>

\* Variant of lines 16-27 with the two payload fields exchanged.
ThenBranchSwapped ==
    << Stmt("assign", "imageIdField", "image_url"),
       Stmt("assign", "imageUrlField", "image_id"),
       Dispatch("imageIdField", "input"),
       Dispatch("imageIdField", "change"),
       Dispatch("imageUrlField", "input"),
       Dispatch("imageUrlField", "change"),
       Log("Fields updated successfully"),
       Stmt("alert", "window", "Image selected! Fields have been filled.") >>

\* Variant of lines 16-27 with line 18 moved below line 22.
ThenBranchDispatchEarly ==
    << Stmt("assign", "imageIdField", "image_id"),
       Dispatch("imageIdField", "input"),
       Dispatch("imageIdField", "change"),
       Stmt("assign", "imageUrlField", "image_url"),
       Dispatch("imageUrlField", "input"),
       Dispatch("imageUrlField", "change"),
       Log("Fields updated successfully"),
       Stmt("alert", "window", "Image selected! Fields have been filled.") >>

\* Variant of lines 16-27 without line 27.
ThenBranchNoAlert ==
    << Stmt("assign", "imageIdField", "image_id"),
       Stmt("assign", "imageUrlField", "image_url"),
       Dispatch("imageIdField", "input"),
       Dispatch("imageIdField", "change"),
       Dispatch("imageUrlField", "input"),
       Dispatch("imageUrlField", "change"),
       Log("Fields updated successfully") >>

\* Lines 16-27.
ThenBranch ==
    << Stmt("assign", "imageIdField", "image_id"),
       Stmt("assign", "imageUrlField", "image_url"),
       Dispatch("imageIdField", "input"),
       Dispatch("imageIdField", "change"),
       Dispatch("imageUrlField", "input"),
       Dispatch("imageUrlField", "change"),
       Log("Fields updated successfully"),
       Stmt("alert", "window", "Image selected! Fields have been filled.") >>

\* Variant of lines 28-30 that logs nothing.
ElseBranchSilent == << >>

\* Variant of lines 28-30 that tells the user with alert().
ElseBranchAlert ==
    << Stmt("error", "console", "Could not find input fields"),
       Stmt("alert", "window", "Could not find input fields") >>

\* Lines 28-30.
ElseBranch == << Stmt("error", "console", "Could not find input fields") >>

\* The statements one call executes, in order.
Body(ev, doc) ==
    << Log("Message received:") >>
    \o CASE TypeGuard(ev) = "throw" -> << Stmt("throw", "event.data", "type") >>
         [] TypeGuard(ev) = "skip" -> << >>
         [] TypeGuard(ev) = "enter" ->
               FindFields \o (IF FieldsFound(doc) THEN ThenBranch ELSE ElseBranch)

\* One statement executed in state st = [doc, trace, threw].  A property
\* write on null (an input that was not found) is a TypeError.
Step(st, s, ev) ==
    LET note(d) == Append(st.trace, [op |-> s.op, target |-> s.target, arg |-> s.arg,
                                     bubbles |-> s.bubbles, seen |-> Seen(d)])
    IN  IF s.op = "throw" THEN [st EXCEPT !.threw = TRUE]
        ELSE IF s.op \in {"assign", "dispatch"} /\ ~st.doc[s.target].present
             THEN [st EXCEPT !.threw = TRUE]
        ELSE IF s.op = "assign"
             THEN LET d == [st.doc EXCEPT ![s.target].value = ToDOMString(GetProp(ev.data, s.arg))]
                  IN  [st EXCEPT !.doc = d, !.trace = note(d)]
        ELSE [st EXCEPT !.trace = note(st.doc)]

RECURSIVE Exec(_, _, _)
Exec(stmts, st, ev) ==
    IF stmts = << >> \/ st.threw THEN st
    ELSE Exec(Tail(stmts), Step(st, Head(stmts), ev), ev)

\* The outcome of the listener called with ev on document doc.
Listener(ev, doc) == Exec(Body(ev, doc), [doc |-> doc, trace |-> << >>, threw |-> FALSE], ev)

\* alert() is the only statement of the listener that waits for the user.
Blocked(tr) == tr # << >> /\ tr[Len(tr)].op = "alert"

----------------------------------------------------------------------------
(* History kept for the claims about sequences of messages.                *)

NoData == Primitive("none")

IsSelected(data) == data.kind = "object" /\ data.type = Str("image_selected")

----------------------------------------------------------------------------
(* Actions.                                                                *)

Init ==
    /\ pc = "idle"
    /\ event = NoEvent
    /\ \E p, q \in BOOLEAN :
          /\ document = [imageIdField |-> Element(p), imageUrlField |-> Element(q)]
          /\ stable = (p /\ q)
    /\ pre = document
    /\ trace = << >>
    /\ threw = FALSE
    /\ lastSelected = NoData

\* The event loop delivers a message: the listener runs from line 3 until
\* it returns, throws, or is suspended in alert().
Message(ev) ==
    /\ pc = "idle"
    /\ LET r == Listener(ev, document)
       IN  /\ document' = r.doc
           /\ trace' = r.trace
           /\ threw' = r.threw
           /\ pc' = IF Blocked(r.trace) /\ ~r.threw THEN "alert" ELSE "returned"
    /\ event' = ev
    /\ pre' = document
    /\ lastSelected' = IF stable /\ IsSelected(ev.data) THEN ev.data ELSE lastSelected
    /\ UNCHANGED stable

\* The user dismisses the dialog: alert() returns and so does the listener.
AlertDismissed ==
    /\ pc = "alert"
    /\ pc' = "returned"
    /\ UNCHANGED <<event, document, pre, trace, threw, lastSelected, stable>>

\* The task ends; the locals of the call are gone.
TaskEnd ==
    /\ pc = "returned"
    /\ pc' = "idle"
    /\ event' = NoEvent
    /\ pre' = document
    /\ trace' = << >>
    /\ threw' = FALSE
    /\ UNCHANGED <<document, lastSelected, stable>>

\* Between tasks the page removes one of the inputs.
RemoveInput(f) ==
    /\ pc = "idle"
    /\ document[f].present
    /\ document' = [document EXCEPT ![f] = Element(FALSE)]
    /\ pre' = document'
    /\ stable' = FALSE
    /\ lastSelected' = NoData
    /\ UNCHANGED <<pc, event, trace, threw>>

\* Between tasks the page inserts a fresh input.
InsertInput(f) ==
    /\ pc = "idle"
    /\ ~document[f].present
    /\ document' = [document EXCEPT ![f] = Element(TRUE)]
    /\ pre' = document'
    /\ UNCHANGED <<pc, event, trace, threw, lastSelected, stable>>

Next ==
    \/ \E ev \in Events : Message(ev)
    \/ AlertDismissed
    \/ TaskEnd
    \/ \E f \in Fields : RemoveInput(f)
    \/ \E f \in Fields : InsertInput(f)

Spec == Init /\ [][Next]_vars

----------------------------------------------------------------------------
(* Vocabulary of the properties.                                           *)

\* A call has been made and its effects so far are in trace.
Called == pc \in {"alert", "returned"}

\* The listener has returned.
Returned == pc = "returned"

BothExisted == pre.imageIdField.present /\ pre.imageUrlField.present

NeitherExisted == ~pre.imageIdField.present /\ ~pre.imageUrlField.present

Count(o) == Cardinality({i \in DOMAIN trace : trace[i].op = o})

Dispatched(t, a) ==
    {i \in DOMAIN trace : /\ trace[i].op = "dispatch"
                          /\ trace[i].target = t
                          /\ trace[i].arg = a
                          /\ trace[i].bubbles}

Assigned == {trace[i].target : i \in {j \in DOMAIN trace : trace[j].op = "assign"}}

OncePerInputAndType ==
    /\ \A t \in Fields : \A a \in {"input", "change"} : Cardinality(Dispatched(t, a)) = 1
    /\ Count("dispatch") = 4

\* The string an input holds after a JavaScript value was assigned to it.
StringForm(v) ==
    IF v.kind = "string" THEN v
    ELSE IF v.kind = "number" THEN [kind |-> "string", val |-> v.val]
    ELSE IF v.kind = "undefined" THEN [kind |-> "string", val |-> "undefined"]
    ELSE [kind |-> "string", val |-> ""]

NoDomEffect ==
    /\ document = pre
    /\ Count("assign") = 0
    /\ Count("dispatch") = 0

\* The effects of the call without what a reader saw at each of them.
Ops(tr) == [i \in DOMAIN tr |-> <<tr[i].op, tr[i].target, tr[i].arg>>]

----------------------------------------------------------------------------
(* C1.  As stated: for every 'image_selected' message handled while both   *)
(* inputs exist, when the handler returns the id input's value is          *)
(* data.image_id and the url input's value is data.image_url, and exactly  *)
(* one bubbling 'input' and one bubbling 'change' event were dispatched on *)
(* each input.                                                             *)
C1_ValueIsPayloadField ==
    (Returned /\ IsSelected(event.data) /\ BothExisted) =>
        /\ document.imageIdField.value = event.data.image_id
        /\ document.imageUrlField.value = event.data.image_url
        /\ OncePerInputAndType

(* C1, amended: the values are the string forms of data.image_id and       *)
(* data.image_url (the field itself when it is a string, its numeral when  *)
(* a number, "undefined" when absent, "" when null); the four dispatches   *)
(* are as stated.                                                          *)
C1_ValueIsStringOfPayloadField ==
    (Returned /\ IsSelected(event.data) /\ BothExisted) =>
        /\ document.imageIdField.value = StringForm(event.data.image_id)
        /\ document.imageUrlField.value = StringForm(event.data.image_url)
        /\ (event.data.image_id.kind = "string" =>
                document.imageIdField.value = event.data.image_id)
        /\ (event.data.image_url.kind = "string" =>
                document.imageUrlField.value = event.data.image_url)
        /\ OncePerInputAndType

C1_Witness ==
    /\ Returned /\ IsSelected(event.data) /\ BothExisted
    /\ event.data.image_id \in ImageStrings
    /\ event.data.image_url = Undefined
    /\ Seen(document) = <<event.data.image_id, Str("undefined")>>

(* C2.  A message whose data.type is anything other than 'image_selected'  *)
(* (a missing type included) changes no value, dispatches no event, shows  *)
(* no alert and logs no error.                                             *)
C2_OtherTypeNoEffect ==
    (Called /\ ~IsSelected(event.data)) =>
        /\ NoDomEffect
        /\ Count("alert") = 0
        /\ Count("error") = 0

C2_Witness ==
    /\ Returned /\ BothExisted
    /\ event.data.kind = "object" /\ event.data.type = Str("other")
    /\ event.data.image_id \in ImageStrings
    /\ Seen(document) # <<InitialValue, InitialValue>>

(* C3.  An 'image_selected' message handled while an input is missing logs *)
(* one error, returns normally, writes no value, dispatches no event and   *)
(* shows no alert.                                                         *)
C3_MissingInputsLogError ==
    (Called /\ IsSelected(event.data) /\ ~BothExisted) =>
        /\ Count("error") = 1
        /\ Returned /\ ~threw
        /\ NoDomEffect
        /\ Count("alert") = 0

C3_Witness ==
    /\ Returned /\ IsSelected(event.data) /\ NeitherExisted
    /\ Count("error") = 1

(* C4.  The alert is shown exactly once in a call that filled both fields  *)
(* and never in any other call (other type, absent payload, an input       *)
(* missing).                                                               *)
C4_AlertOncePerFill ==
    Called =>
        /\ Count("alert") = (IF Assigned = Fields THEN 1 ELSE 0)
        /\ (~IsSelected(event.data) \/ ~BothExisted) => Count("alert") = 0
        /\ (IsSelected(event.data) /\ BothExisted) => Assigned = Fields

C4_Witness ==
    /\ Returned /\ Assigned = Fields /\ Count("alert") = 1

(* C5.  As stated: the handler has no blocking operation; no call ever     *)
(* waits on the user.                                                      *)
C5_NeverWaits == pc # "alert"

(* C5, amended: the only step that waits is the acknowledgment alert of a  *)
(* call that filled both fields, after its four dispatches; every other    *)
(* call runs from entry to return without waiting.                         *)
C5_WaitsOnlyInSuccessAlert ==
    /\ pc = "alert" =>
          /\ IsSelected(event.data) /\ BothExisted
          /\ Assigned = Fields /\ Count("dispatch") = 4
          /\ trace[Len(trace)].op = "alert" /\ Count("alert") = 1
    /\ (Called /\ ~(IsSelected(event.data) /\ BothExisted)) =>
          /\ Returned
          /\ Count("alert") = 0

C5_Witness ==
    /\ pc = "alert" /\ Count("alert") = 1

(* C6.  Filling is all-or-nothing: with exactly one input present an       *)
(* 'image_selected' message leaves that input's value alone, dispatches    *)
(* nothing and logs the same error as with both missing; every call writes *)
(* both values or neither.                                                 *)
C6_AllOrNothing ==
    /\ (Called /\ IsSelected(event.data) /\ ~BothExisted /\ ~NeitherExisted) =>
          /\ NoDomEffect
          /\ Count("error") = 1
          /\ Ops(trace) =
               Ops(Listener(event, [imageIdField |-> Element(FALSE),
                                    imageUrlField |-> Element(FALSE)]).trace)
    /\ Called => Assigned \in {{}, Fields}

C6_Witness ==
    /\ Returned /\ IsSelected(event.data)
    /\ pre.imageIdField.present /\ ~pre.imageUrlField.present
    /\ pre.imageIdField.value # InitialValue
    /\ event.data.image_id \in ImageStrings
    /\ pre.imageIdField.value # event.data.image_id

(* C7.  A payload without the expected shape (null, undefined, another     *)
(* falsy value, or a value with no type property) is a no-op: the handler  *)
(* returns normally, queries no input, writes nothing, dispatches nothing, *)
(* shows no alert and logs no error.                                       *)
C7_ShapelessNoOp ==
    (Called /\ (event.data.kind # "object" \/ event.data.type = Undefined)) =>
        /\ Returned /\ ~threw
        /\ Count("query") = 0
        /\ NoDomEffect
        /\ Count("alert") = 0
        /\ Count("error") = 0

C7_Witness ==
    /\ Returned /\ ~threw /\ event.data.kind = "null" /\ BothExisted
    /\ trace # << >>

C9_HoldsLastPayloadFields ==
    stable =>
        Seen(document) =
            IF lastSelected = NoData THEN <<InitialValue, InitialValue>>
            ELSE <<lastSelected.image_id, lastSelected.image_url>>

(* C9, amended: the inputs hold the string forms of the image_id and       *)
(* image_url of the latest 'image_selected' message (the fields themselves *)
(* when they are strings); the rest as stated.                             *)
C9_LastSelectedWins ==
    stable =>
        /\ Seen(document) =
              IF lastSelected = NoData THEN <<InitialValue, InitialValue>>
              ELSE <<StringForm(lastSelected.image_id), StringForm(lastSelected.image_url)>>
        /\ (lastSelected # NoData /\ lastSelected.image_id.kind = "string"
                                  /\ lastSelected.image_url.kind = "string") =>
              Seen(document) = <<lastSelected.image_id, lastSelected.image_url>>

C9_Witness ==
    /\ stable /\ Returned /\ IsSelected(event.data)
    /\ Seen(pre) \in ImageStrings \X ImageStrings
    /\ Seen(document) \in ImageStrings \X ImageStrings
    /\ Seen(document)[1] # Seen(pre)[1]
    /\ Seen(document)[2] # Seen(pre)[2]

(* C10.  The effect of a call depends only on event.data and on which      *)
(* inputs exist, not on the sender: the same data from any origin gives    *)
(* the same values, events, alert and log, so a message from any sender    *)
(* fills the fields; image_id and image_url are written unvalidated, also  *)
(* when the payload lacks them.                                            *)
C10_SenderIndependent ==
    Called =>
        /\ \A o \in Origins :
              LET r == Listener([event EXCEPT !.origin = o], pre)
              IN  r.doc = document /\ r.trace = trace /\ r.threw = threw
        /\ (IsSelected(event.data) /\ BothExisted) =>
              /\ Assigned = Fields
              /\ Seen(document) = <<StringForm(event.data.image_id),
                                    StringForm(event.data.image_url)>>

C10_Witness ==
    /\ Returned /\ event.origin = "elsewhere"
    /\ IsSelected(event.data) /\ BothExisted
    /\ event.data.image_id = Undefined
    /\ Seen(document)[1] = Str("undefined")
    /\ Count("alert") = 1

====
